---- MODULE Spec2Model ----
(***************************************************************************)
(* Model of tap-coosto: main() (tap.py) constructs the Coosto client       *)
(* (login, rate-limit discovery) and the sync loop consumes the generator  *)
(* Coosto.intervention_details (coosto.py), which walks the days from      *)
(* start_date till now, paces, fetches one page per day and yields the     *)
(* cleaned rows.                                                           *)
(*                                                                         *)
(* Time is in whole seconds since the Unix epoch.  Strings that the code   *)
(* parses or formats (start_date, the epoch strings of the day keys) are   *)
(* sequences of one-character strings.                                     *)
(***************************************************************************)
EXTENDS Integers, Sequences, FiniteSets, TLC

(***************************************************************************)
(* Bounds of the model.                                                    *)
(***************************************************************************)
\* longest day range (number of DayWindows) a run of the model walks
MaxDays == 3
\* most rows in one day's `data` array
MaxRows == 2
\* most seconds that pass during one run, the pauses of the pacing apart
MaxElapsed == 5
\* most calls of intervention_details on one client
MaxInvocations == 2

(***************************************************************************)
(* Program constants.                                                      *)
(***************************************************************************)
\* coosto.py:64   end_of_day = int(date_day) + 86400
SecondsPerDay == 86400
\* coosto.py:92   sleep_between_requests = 60 / self.max_requests
SecondsPerMinute == 60

\* None, where the code holds None in place of a string
None == "None"

\* An optional value (an attribute that may hold None, a key that may be
\* absent) is the empty set or the set of its one value.
Nothing == {}
Some(v) == {v}
the(opt) == CHOOSE v \in opt : TRUE

\* the status of a request whose response has not arrived
Pending == 0

(***************************************************************************)
(* Strings: str.split, str.lstrip, int(), and the decimal formatting of    *)
(* strftime('%s') and str().                                               *)
(***************************************************************************)
DigitChars == <<"0", "1", "2", "3", "4", "5", "6", "7", "8", "9">>

DigitVal(c) == CHOOSE n \in 0..9 : DigitChars[n + 1] = c

RECURSIVE split(_, _)
split(s, sep) ==
    IF \E i \in 1..Len(s) : s[i] = sep
    THEN LET i == CHOOSE k \in 1..Len(s) :
                      s[k] = sep /\ \A j \in 1..(k - 1) : s[j] # sep
         IN  <<SubSeq(s, 1, i - 1)>> \o split(SubSeq(s, i + 1, Len(s)), sep)
    ELSE <<s>>

RECURSIVE lstrip(_)
lstrip(s) == IF Len(s) > 0 /\ s[1] = " " THEN lstrip(Tail(s)) ELSE s

RECURSIVE digits_value(_)
digits_value(s) ==
    the({ IF Len(v) = 0 THEN 0
          ELSE digits_value(SubSeq(v, 1, Len(v) - 1)) * 10 + DigitVal(v[Len(v)])
          : v \in {s} })

\* int(s) for a decimal string with an optional sign
int(s) ==
    IF Len(s) > 0 /\ s[1] = "-" THEN 0 - digits_value(Tail(s))
    ELSE digits_value(s)

RECURSIVE nat_digits(_)
nat_digits(n) ==
    IF n < 10 THEN <<DigitChars[n + 1]>>
    ELSE nat_digits(n \div 10) \o <<DigitChars[(n % 10) + 1]>>

\* str(n) / the '%s' formatting of an integer
str(n) ==
    the({ IF v < 0 THEN <<"-">> \o nat_digits(0 - v) ELSE nat_digits(v)
          : v \in {n} })

(***************************************************************************)
(* Calendar: datetime.date(year, month, day) and its proleptic Gregorian   *)
(* ordinal, as the standard library computes them.                         *)
(***************************************************************************)
is_leap(y) == y % 4 = 0 /\ (y % 100 # 0 \/ y % 400 = 0)

days_in_month(y, m) ==
    IF m = 2 /\ is_leap(y) THEN 29
    ELSE <<31, 28, 31, 30, 31, 30, 31, 31, 30, 31, 30, 31>>[m]

days_before_year(y) ==
    LET p == y - 1 IN p * 365 + (p \div 4) - (p \div 100) + (p \div 400)

RECURSIVE days_before_month(_, _)
days_before_month(y, m) ==
    IF m = 1 THEN 0 ELSE days_before_month(y, m - 1) + days_in_month(y, m - 1)

\* date(y, m, d) raises ValueError unless this holds
valid_date(y, m, d) ==
    /\ y \in 1..9999
    /\ m \in 1..12
    /\ d \in 1..days_in_month(y, m)

toordinal(y, m, d) ==
    the({ days_before_year(v[1]) + days_before_month(v[1], v[2]) + v[3]
          : v \in {<<y, m, d>>} })

EpochOrdinal == toordinal(1970, 1, 1)

\* the epoch second of a UTC wall-clock time
utc_epoch(y, m, d, hh, mm) ==
    (toordinal(y, m, d) - EpochOrdinal) * SecondsPerDay + hh * 3600 + mm * 60

\* the UTC calendar day (as an ordinal) that contains epoch second t
utc_ordinal(t) == EpochOrdinal + (t \div SecondsPerDay)

(***************************************************************************)
(* The process's local time zone.  A zone is its standard UTC offset and   *)
(* the days (ordinals) whose local midnight falls in daylight-saving time. *)
(***************************************************************************)
UTC == [name |-> "UTC", std |-> 0, dst_from |-> 0, dst_to |-> 0, dst |-> 0]

\* Europe/Amsterdam in 2020: CEST from 2020-03-29 02:00 to 2020-10-25 03:00
Amsterdam ==
    [name |-> "Europe/Amsterdam", std |-> 3600,
     dst_from |-> toordinal(2020, 3, 30), dst_to |-> toordinal(2020, 10, 25),
     dst |-> 3600]

TimeZones == {UTC, Amsterdam}

\* the UTC offset in effect at local midnight of the day with ordinal ord
utc_offset(zone, ord) ==
    IF ord >= zone.dst_from /\ ord <= zone.dst_to
    THEN zone.std + zone.dst
    ELSE zone.std

\* datetime.strftime('%s') of the naive midnight of day ord: mktime() reads
\* the naive fields as local time
strftime_s(zone, ord) ==
    str((ord - EpochOrdinal) * SecondsPerDay - utc_offset(zone, ord))

\* (variant: the start day is always part of the enumeration)
rrule_daily_from_start(period, until) ==
    LET first == (period - EpochOrdinal) * SecondsPerDay
        count == IF first > until THEN 1
                 ELSE ((until - first) \div SecondsPerDay) + 1
    IN  [k \in 1..count |-> period + k - 1]

\* dateutil.rrule(freq=DAILY, dtstart=<midnight of ordinal period>,
\* until=<naive UTC now>): the ordinals period, period + 1, ... whose naive
\* midnight is not after `until`
rrule_daily(period, until) ==
    LET first == (period - EpochOrdinal) * SecondsPerDay
        count == IF first > until THEN 0
                 ELSE ((until - first) \div SecondsPerDay) + 1
    IN  [k \in 1..count |-> period + k - 1]

\* the fields of start_date, parsed as lines 136-138 parse them
start_year(start_date) == int(split(start_date, "-")[1])
start_month(start_date) == int(lstrip(split(start_date, "-")[2]))
start_day(start_date) == int(lstrip(split(start_date, "-")[3]))

\* line 141: period = date(year, month, day)
start_period(start_date) ==
    toordinal(start_year(start_date), start_month(start_date),
              start_day(start_date))

\* Coosto._start_days_till_now: the epoch string of every day from
\* start_date until utcnow
start_days_till_now(start_date, zone, utcnow) ==
    LET formatted(dates) == [k \in 1..Len(dates) |-> strftime_s(zone, dates[k])]
        enumerated(period) ==
            {formatted(dates) : dates \in {rrule_daily(period, utcnow)}}
    IN  the(UNION {enumerated(period) : period \in {start_period(start_date)}})

\* line 64: end_of_day = int(date_day) + 86400
end_of_day(date_day) == int(date_day) + SecondsPerDay

\* lines 66-78: the URL of one day's request, as its two query parameters
day_url(date_day) == [since |-> date_day, until |-> str(end_of_day(date_day))]

\* (variant: the interval is requests per second instead of seconds per request)
next_allowed_inverted(now, max_reqs) == now + (max_reqs \div SecondsPerMinute)

\* lines 92-94: next_request = datetime.now() + timedelta(seconds=60 / max_requests)
next_allowed(now, max_reqs) == now + (SecondsPerMinute \div max_reqs)

\* (variant: only server errors are treated as failures)
is_error_5xx_only(status) == status >= 500 /\ status <= 599

\* (variant: the status is never checked)
is_error_unchecked(status) == FALSE

\* httpx Response.raise_for_status raises for 4xx and 5xx
is_error(status) == status >= 400 /\ status <= 599

\* dict.get(key, default) on a JSON object
get(obj, key, default) == IF key \in DOMAIN obj THEN obj[key] ELSE default

\* CLEANERS['intervention_details']: a pure transform of one raw row
cleaner(row) == [day |-> row.day, n |-> row.n, clean |-> TRUE]

(***************************************************************************)
(* Inputs of a run.                                                        *)
(***************************************************************************)
pad2(n) == IF n < 10 THEN <<"0">> \o nat_digits(n) ELSE nat_digits(n)

\* "YYYY-MM-DD"
iso(y, m, d) == nat_digits(y) \o <<"-">> \o pad2(m) \o <<"-">> \o pad2(d)

EmptyString == << >>

StartDates ==
    { iso(2019, 12, 31), iso(2020, 1, 1), iso(2020, 1, 3), iso(2020, 1, 4),
      iso(2020, 3, 27), iso(2020, 3, 28), EmptyString }

\* the configuration file: start_date may be absent
Configs ==
    { [username |-> "user", password |-> "secret"] }
    \cup { [username |-> "user", password |-> "secret", start_date |-> s] :
             s \in StartDates }

\* the instant at which the process starts
BootTimes == { utc_epoch(2020, 1, 3, 10, 0), utc_epoch(2020, 3, 30, 23, 30) }

StatusCodes == {200, 401, 500}

LoginBodies ==
    { [data |-> [sessionid |-> "abc"]],
      [data |-> [userid |-> "u1"]],
      [error |-> "no data"] }

RateLimitBodies ==
    { [data |-> [enabled |-> e, max_requests |-> n]] :
        e \in BOOLEAN, n \in {30, 60} }
    \cup { [error |-> "no data"] }

\* the page the server returns for the day starting at epoch second day
page(day, k) == [n \in 1..k |-> [day |-> day, n |-> n]]

\* an empty page, a full page, or a body without a data array
FetchBodies(day) ==
    { [data |-> page(day, k)] : k \in {0, MaxRows} } \cup { [error |-> "no data"] }

\* the registry of tap_coosto.cleaners, with or without an entry for the report
Registries == { {"intervention_details"}, {} }

\* tap.py:16  REQUIRED_CONFIG_KEYS
REQUIRED_CONFIG_KEYS == {"username", "password", "start_date"}

\* the number of days a run with this configuration would walk
span(cfg, boot) ==
    IF "start_date" \notin DOMAIN cfg \/ cfg.start_date = EmptyString THEN 0
    ELSE Len(rrule_daily(start_period(cfg.start_date), boot + MaxElapsed))

(***************************************************************************)
(* State.                                                                  *)
(***************************************************************************)
VARIABLES
    config,        \* args.config
    zone,          \* the process's local time zone
    CLEANERS,      \* the cleaner registry: the report types that have a cleaner
    invocations,   \* calls of intervention_details made on this client
    boot,          \* the instant the process started
    clock,         \* the current instant
    pc,            \* where the single flow of control is
    error,         \* the exception that ended the run, or None
    cookies,       \* self.cookies, as a set of <<name, value>> pairs
    max_requests,  \* self.max_requests; Nothing while the attribute is missing
    next_request,  \* self.next_request: Nothing for None, or an instant
    requests,      \* every request sent so far, with its response once received
    dates,         \* the days the loop of line 62 has still to walk
    windows,       \* the days the enumeration produced (history)
    date_day,      \* the loop variable of line 62
    rows,          \* the rows of the current page still to be yielded
    produced,      \* the records the consumer has received
    get_at,        \* the instant the latest day request was sent, if any
    prev_get_at    \* the instant the day request before it was sent, if any

vars == <<config, zone, CLEANERS, invocations, boot, clock, pc, error, cookies, max_requests,
          next_request, requests, dates, windows, date_day, rows, produced,
          get_at, prev_get_at>>

Init ==
    /\ config \in Configs
    /\ zone \in TimeZones
    /\ CLEANERS \in Registries
    /\ invocations = 0
    /\ boot \in BootTimes
    /\ span(config, boot) <= MaxDays
    /\ clock = boot
    /\ pc = "main"
    /\ error = None
    /\ cookies = {}
    /\ max_requests = Nothing
    /\ next_request = Nothing
    /\ requests = << >>
    /\ dates = << >>
    /\ windows = << >>
    /\ date_day = EmptyString
    /\ rows = << >>
    /\ produced = << >>
    /\ get_at = Nothing
    /\ prev_get_at = Nothing

\* an exception that nothing catches ends the run
Raise(e) ==
    /\ pc' = "failed"
    /\ error' = e

\* an entry of the request log: data is the `data` array of the response
\* body, if the response is a success that has one
Request(kind, sent_cookies, url, status, data) ==
    [kind |-> kind, cookies |-> sent_cookies, url |-> url,
     status |-> status, data |-> data]

NoUrl == [since |-> EmptyString, until |-> EmptyString]

(***************************************************************************)
(* tap.py: main().                                                         *)
(***************************************************************************)
\* line 27: utils.parse_args(REQUIRED_CONFIG_KEYS) raises when a required
\* key is not in the configuration, before the client is constructed
ParseArgs ==
    /\ pc = "main"
    /\ IF REQUIRED_CONFIG_KEYS \subseteq DOMAIN config
       THEN pc' = "login" /\ error' = error
       ELSE Raise("ConfigError")
    /\ UNCHANGED <<config, zone, CLEANERS, invocations, boot, clock, cookies, max_requests,
                   next_request, requests, dates, windows, date_day, rows,
                   produced, get_at, prev_get_at>>

(***************************************************************************)
(* coosto.py: Coosto.__init__ (lines 35-42) runs _login, then              *)
(* set_rate_limit, then sets next_request = None.                          *)
(***************************************************************************)
\* the `data` member of a response body, if the response is a success and
\* its body has one
body_data(status, body) ==
    IF is_error(status) \/ "data" \notin DOMAIN body THEN Nothing
    ELSE Some(body.data)

\* (variant: the session identifier of the response is not stored)
session_cookies_dropped(body) == {<<"sessionid", None>>}

\* lines 120-123: self.cookies = {'sessionid': response_data.get('sessionid')}
\* with response_data = response.json().get('data', {})
session_cookies(body) ==
    LET response_data == get(body, "data", [none |-> None])
    IN  {<<"sessionid", get(response_data, "sessionid", None)>>}

\* Coosto._login, reached from __init__ line 39: the POST carries no cookie
Login ==
    /\ pc = "login"
    /\ \E status \in StatusCodes, body \in LoginBodies :
         /\ requests' = Append(requests,
                               Request("login", {}, NoUrl, status,
                                       body_data(status, body)))
         /\ IF is_error(status)
            THEN /\ Raise("HTTPStatusError")
                 /\ cookies' = cookies
            ELSE /\ cookies' = session_cookies(body)
                 /\ pc' = "rate_limit"
                 /\ error' = error
    /\ UNCHANGED <<config, zone, CLEANERS, invocations, boot, clock, max_requests, next_request,
                   dates, windows, date_day, rows, produced, get_at, prev_get_at>>

\* Coosto.set_rate_limit with Coosto.rate_limit (lines 153-172), then
\* line 42: self.next_request = None
SetRateLimit ==
    /\ pc = "rate_limit"
    /\ \E status \in StatusCodes, body \in RateLimitBodies :
         /\ requests' = Append(requests,
                               Request("rate_limit", cookies, NoUrl, status,
                                       body_data(status, body)))
         /\ IF is_error(status)
            THEN /\ Raise("HTTPStatusError")
                 /\ UNCHANGED <<max_requests, next_request>>
            ELSE IF "data" \notin DOMAIN body
                 THEN /\ Raise("AttributeError")
                      /\ UNCHANGED <<max_requests, next_request>>
                 ELSE LET rate_dict == body.data
                      IN  /\ max_requests' =
                               IF ~get(rate_dict, "enabled", FALSE)
                               THEN max_requests
                               ELSE Some(rate_dict.max_requests)
                          /\ next_request' = Nothing
                          /\ pc' = "sync"
                          /\ error' = error
    /\ UNCHANGED <<config, zone, CLEANERS, invocations, boot, clock, cookies, dates, windows,
                   date_day, rows, produced, get_at, prev_get_at>>

(***************************************************************************)
(* The consumer: sync() calls coosto.intervention_details(start_date=...)  *)
(* and pulls its records one at a time.                                    *)
(***************************************************************************)
\* tap.py line 51: the call creates the generator; none of its code runs yet
Sync ==
    /\ pc = "sync"
    /\ pc' = "created"
    /\ invocations' = 1
    /\ UNCHANGED <<config, zone, CLEANERS, boot, clock, error, cookies, max_requests,
                   next_request, requests, dates, windows, date_day, rows,
                   produced, get_at, prev_get_at>>

\* the first next(): lines 54-62, up to the start of the day loop
Start ==
    /\ pc = "created"
    /\ LET start_date_input == config.start_date
       IN  IF start_date_input = EmptyString
           THEN /\ Raise("ValueError")
                /\ UNCHANGED <<dates, windows>>
           ELSE IF ~valid_date(start_year(start_date_input),
                               start_month(start_date_input),
                               start_day(start_date_input))
           THEN /\ Raise("ValueError")
                /\ UNCHANGED <<dates, windows>>
           ELSE /\ dates' = start_days_till_now(start_date_input, zone, clock)
                /\ windows' = dates'
                /\ pc' = "loop"
                /\ error' = error
    /\ UNCHANGED <<config, zone, CLEANERS, invocations, boot, clock, cookies, max_requests,
                   next_request, requests, date_day, rows, produced, get_at,
                   prev_get_at>>

\* (variant: the iterator advances twice per day)
remaining_skipping(days) == IF Len(days) > 1 THEN Tail(Tail(days)) ELSE << >>

\* what the iterator of line 62 holds after it has handed out a day
remaining(days) == Tail(days)

\* line 62: the for loop takes the next day, or ends the generator
NextDay ==
    /\ pc = "loop"
    /\ IF dates = << >>
       THEN /\ pc' = "done"
            /\ UNCHANGED <<dates, date_day>>
       ELSE /\ date_day' = Head(dates)
            /\ dates' = remaining(dates)
            /\ pc' = "pace"
    /\ UNCHANGED <<config, zone, CLEANERS, invocations, boot, clock, error, cookies, max_requests,
                   next_request, requests, windows, rows, produced, get_at,
                   prev_get_at>>

\* (variant: the pause returns at once)
PaceWait_immediate(now, until) == TRUE

\* lines 84-86: pause.until(self.next_request) returns once that instant
\* has been reached
PaceWait(now, until) == now >= until

Pace ==
    /\ pc = "pace"
    /\ next_request # Nothing => PaceWait(clock, the(next_request))
    /\ pc' = "get"
    /\ UNCHANGED <<config, zone, CLEANERS, invocations, boot, clock, error, cookies, max_requests,
                   next_request, requests, dates, windows, date_day, rows,
                   produced, get_at, prev_get_at>>

\* line 88: self.client.get(url, cookies=self.cookies) sends the request
Get ==
    /\ pc = "get"
    /\ requests' = Append(requests,
                          Request("fetch", cookies, day_url(date_day),
                                  Pending, Nothing))
    /\ prev_get_at' = get_at
    /\ get_at' = Some(clock)
    /\ pc' = "response"
    /\ UNCHANGED <<config, zone, CLEANERS, invocations, boot, clock, error, cookies, max_requests,
                   next_request, dates, windows, date_day, rows, produced>>

\* (variant: the status is checked before the pacing state is recomputed)
Response_status_first ==
    /\ pc = "response"
    /\ \E status \in StatusCodes, body \in FetchBodies(int(date_day)) :
         LET data == body_data(status, body)
         IN
         /\ requests' = [requests EXCEPT ![Len(requests)] =
                            [@ EXCEPT !.status = status, !.data = data]]
         /\ IF is_error(status)
            THEN /\ Raise("HTTPStatusError")
                 /\ UNCHANGED <<next_request, rows>>
            ELSE IF max_requests = Nothing
            THEN /\ Raise("AttributeError")
                 /\ UNCHANGED <<next_request, rows>>
            ELSE /\ next_request' = Some(next_allowed(clock, the(max_requests)))
                 /\ IF data = Nothing
                    THEN /\ Raise("TypeError")
                         /\ rows' = rows
                    ELSE /\ rows' = the(data)
                         /\ pc' = "rows"
                         /\ error' = error
    /\ UNCHANGED <<config, zone, CLEANERS, invocations, boot, clock, cookies, max_requests, dates,
                   windows, date_day, produced, get_at, prev_get_at>>

\* lines 88-106: the response arrives; the pacing state is recomputed, the
\* status is checked and the rows of the page are taken
Response ==
    /\ pc = "response"
    /\ \E status \in StatusCodes, body \in FetchBodies(int(date_day)) :
         LET data == body_data(status, body)
         IN
         /\ requests' = [requests EXCEPT ![Len(requests)] =
                            [@ EXCEPT !.status = status, !.data = data]]
         /\ IF max_requests = Nothing
            THEN /\ Raise("AttributeError")
                 /\ UNCHANGED <<next_request, rows>>
            ELSE /\ next_request' = Some(next_allowed(clock, the(max_requests)))
                 /\ IF is_error(status)
                    THEN /\ Raise("HTTPStatusError")
                         /\ rows' = rows
                    ELSE IF data = Nothing
                    THEN /\ Raise("TypeError")
                         /\ rows' = rows
                    ELSE /\ rows' = the(data)
                         /\ pc' = "rows"
                         /\ error' = error
    /\ UNCHANGED <<config, zone, CLEANERS, invocations, boot, clock, cookies, max_requests, dates,
                   windows, date_day, produced, get_at, prev_get_at>>

\* line 60: cleaner = CLEANERS.get('intervention_details', {}): the
\* registered function, or the empty dict of the default
lookup_cleaner(registry) ==
    IF "intervention_details" \in registry THEN "function" ELSE "dict"

\* line 104: cleaner(row) can be evaluated only if cleaner is callable
callable(found) == found = "function"

\* (variant: the loop goes on to the next day without handing the page over)
YieldRow_skipping ==
    /\ pc = "rows"
    /\ pc' = "loop"
    /\ UNCHANGED <<config, zone, CLEANERS, invocations, boot, clock, error, cookies, max_requests,
                   next_request, requests, dates, windows, date_day, rows,
                   produced, get_at, prev_get_at>>

\* lines 103-106: yield cleaner(row) for the next row of the page, or go on
\* to the next day when the page is exhausted
YieldRow ==
    /\ pc = "rows"
    /\ IF rows = << >>
       THEN /\ pc' = "loop"
            /\ UNCHANGED <<rows, produced, error>>
       ELSE IF ~callable(lookup_cleaner(CLEANERS))
       THEN /\ Raise("TypeError")
            /\ UNCHANGED <<rows, produced>>
       ELSE /\ produced' = Append(produced, cleaner(Head(rows)))
            /\ rows' = Tail(rows)
            /\ pc' = "suspended"
            /\ error' = error
    /\ UNCHANGED <<config, zone, CLEANERS, invocations, boot, clock, cookies, max_requests,
                   next_request, requests, dates, windows, date_day, get_at,
                   prev_get_at>>

\* the consumer has handled the record and calls next() again
Pull ==
    /\ pc = "suspended"
    /\ pc' = "rows"
    /\ UNCHANGED <<config, zone, CLEANERS, invocations, boot, clock, error, cookies, max_requests,
                   next_request, requests, dates, windows, date_day, rows,
                   produced, get_at, prev_get_at>>

\* the consumer stops iterating: it never calls next() again
Abandon ==
    /\ pc = "suspended"
    /\ pc' = "stopped"
    /\ UNCHANGED <<config, zone, CLEANERS, invocations, boot, clock, error, cookies, max_requests,
                   next_request, requests, dates, windows, date_day, rows,
                   produced, get_at, prev_get_at>>

\* (variant: a further call starts with the pacing state cleared)
Reinvoke_resetting ==
    /\ pc = "done"
    /\ invocations < MaxInvocations
    /\ invocations' = invocations + 1
    /\ next_request' = Nothing
    /\ pc' = "created"
    /\ UNCHANGED <<config, zone, CLEANERS, boot, clock, error, cookies, max_requests,
                   requests, dates, windows, date_day, rows, produced, get_at,
                   prev_get_at>>

\* lines 44-52: intervention_details is called again on the same client,
\* after the generator of the previous call was exhausted; the call creates
\* a new generator and touches no attribute of the client
Reinvoke ==
    /\ pc = "done"
    /\ invocations < MaxInvocations
    /\ invocations' = invocations + 1
    /\ pc' = "created"
    /\ UNCHANGED <<config, zone, CLEANERS, boot, clock, error, cookies, max_requests,
                   next_request, requests, dates, windows, date_day, rows,
                   produced, get_at, prev_get_at>>

\* A second passes.  The clock is read when a day request is sent, when its
\* response has arrived (line 94) and in pause.until, so time is let pass
\* while a request is in flight and at the pacing point; the time the
\* consumer spends on a record is time that has passed when the flow next
\* reaches the pacing point.
Tick ==
    /\ pc \in {"pace", "response"}
    /\ \/ clock < boot + MaxElapsed
       \/ /\ pc = "pace"
          /\ next_request # Nothing
          /\ clock < the(next_request)
    /\ clock' = clock + 1
    /\ UNCHANGED <<config, zone, CLEANERS, invocations, boot, pc, error, cookies, max_requests,
                   next_request, requests, dates, windows, date_day, rows,
                   produced, get_at, prev_get_at>>

Next ==
    \/ ParseArgs
    \/ Login
    \/ SetRateLimit
    \/ Sync
    \/ Start
    \/ NextDay
    \/ Pace
    \/ Get
    \/ Response
    \/ YieldRow
    \/ Pull
    \/ Abandon
    \/ Tick

Spec == Init /\ [][Next]_vars

\* the process keeps running: the interpreter executes the next statement,
\* time passes, every request is answered, and the consumer either pulls the
\* next record or stops for good
FairSpec == Spec /\ WF_vars(Next)

\* the client is used for more than one call of intervention_details
NextReinvoke == Next \/ Reinvoke

SpecReinvoke == Init /\ [][NextReinvoke]_vars

(***************************************************************************)
(* Properties.                                                             *)
(***************************************************************************)
\* the day requests sent so far, in the order they were sent
FetchLog == SelectSeq(requests, LAMBDA r : r.kind = "fetch")

Since(r) == int(r.url.since)
Until(r) == int(r.url.until)

Success(r) == r.status \in 200..299
NonSuccess(r) == r.status # Pending /\ r.status \notin 200..299

\* the configuration names a start date
StartDateGiven ==
    "start_date" \in DOMAIN config /\ config.start_date # EmptyString

\* the day enumeration of this run has been produced
Enumerated ==
    /\ pc \notin {"main", "login", "rate_limit", "sync", "created"}
    /\ pc = "failed" => FetchLog # << >>

\* the rate-limit response of this run reported enabled = false
RateLimitDisabled ==
    \E i \in 1..Len(requests) :
        /\ requests[i].kind = "rate_limit"
        /\ requests[i].data # Nothing
        /\ ~the(requests[i].data).enabled

\* every day request so far was answered with a 2xx carrying a data array
EveryFetchSucceeded ==
    \A i \in 1..Len(FetchLog) : Success(FetchLog[i]) /\ FetchLog[i].data # Nothing

\* the cleaned rows of the pages of a list of answered day requests
RECURSIVE CleanedPages(_)
CleanedPages(log) ==
    IF log = << >> THEN << >>
    ELSE LET page_rows == IF Head(log).data = Nothing THEN << >>
                          ELSE the(Head(log).data)
         IN  [k \in 1..Len(page_rows) |-> cleaner(page_rows[k])]
             \o CleanedPages(Tail(log))

\* local midnight of the day with this ordinal, as an epoch second
LocalMidnight(ord) == (ord - EpochOrdinal) * SecondsPerDay - utc_offset(zone, ord)

\* C1: for every valid start_date <= today the enumeration has
\* (today - start_date).days + 1 windows, strictly ascending, the first at
\* 00:00 of start_date and the last the day that contains now.
C1_DayEnumeration ==
    (Enumerated /\ start_period(config.start_date) <= utc_ordinal(clock)) =>
        LET n == Len(windows)
            first_day == start_period(config.start_date)
        IN  /\ n = utc_ordinal(clock) - first_day + 1
            /\ \A i \in 1..(n - 1) : int(windows[i]) < int(windows[i + 1])
            /\ int(windows[1]) = LocalMidnight(first_day)
            /\ int(windows[n]) <= clock
            /\ clock < int(windows[n]) + SecondsPerDay

\* C2: every requested window is exactly 86400 seconds wide and consecutive
\* windows are contiguous: the until of window i is the since of window i+1.
C2_WindowsContiguous ==
    \A i \in 1..Len(FetchLog) :
        /\ Until(FetchLog[i]) - Since(FetchLog[i]) = 86400
        /\ i < Len(FetchLog) => Until(FetchLog[i]) = Since(FetchLog[i + 1])

\* C3: with rate limiting enabled and max_requests = N > 0, two successive
\* day requests are at least 60/N seconds apart, and a request is never sent
\* before the next-allowed instant recorded after the request before it.
C3_PacingSeparation ==
    (max_requests # Nothing /\ the(max_requests) > 0) =>
        /\ (prev_get_at # Nothing) =>
              the(max_requests) * (the(get_at) - the(prev_get_at)) >= 60
        /\ (pc = "response" /\ next_request # Nothing) =>
              the(get_at) >= the(next_request)

\* a second day request sent exactly 60/30 = 2 seconds after the first
C3_Witness ==
    /\ pc = "response"
    /\ max_requests = Some(30)
    /\ prev_get_at # Nothing
    /\ the(get_at) - the(prev_get_at) = 2
    /\ get_at = next_request

\* C4: when the rate-limit response reports enabled = false, no pacing
\* instant is ever recorded and the producer walks the days without failing
\* as long as the day requests themselves succeed.
C4_DisabledRunsUnpaced ==
    RateLimitDisabled =>
        /\ next_request = Nothing
        /\ (StartDateGiven /\ EveryFetchSucceeded) => pc # "failed"

\* C5: when start_date is missing or empty, the run makes no request at all:
\* it fails with zero requests made.
C5_NoRequestWithoutStartDate ==
    ~StartDateGiven => requests = << >>

\* C6: when the login response is not a 2xx, the run has failed and the
\* login is the only request ever made (no rate-limit request, no day
\* request, no second login).
C6_LoginFailureEndsRun ==
    /\ \A i \in 2..Len(requests) : requests[i].kind # "login"
    /\ (requests # << >> /\ NonSuccess(requests[1])) =>
          /\ Len(requests) = 1
          /\ pc = "failed"
          /\ error = "HTTPStatusError"

\* the login was answered 401 and the run has stopped there
C6_Witness ==
    /\ Len(requests) = 1
    /\ requests[1].kind = "login"
    /\ requests[1].status = 401
    /\ pc = "failed"

\* C7: after a login whose response carries sessionid = s, the stored
\* session is s for the rest of the run and every later request carries it.
C7_SessionCarried ==
    (/\ requests # << >>
     /\ Success(requests[1])
     /\ requests[1].data # Nothing
     /\ "sessionid" \in DOMAIN the(requests[1].data)) =>
        LET s == the(requests[1].data).sessionid
        IN  /\ cookies = {<<"sessionid", s>>}
            /\ \A i \in 2..Len(requests) :
                   requests[i].cookies = {<<"sessionid", s>>}

\* the login returned "abc" and a rate-limit request and two day requests
\* have been sent with it
C7_Witness ==
    /\ Len(FetchLog) >= 2
    /\ requests[1].data = Some([sessionid |-> "abc"])
    /\ requests[2].kind = "rate_limit"
    /\ FetchLog[2].cookies = {<<"sessionid", "abc">>}

\* C8: day requests are sent in ascending day order, one per window and
\* never twice, each only after the one before it has been answered; a run
\* that ends normally has requested every window (three for start_date
\* 2020-01-01 and now 2020-01-03T10:00Z).
C8_FetchOrder ==
    /\ Len(FetchLog) <= Len(windows)
    /\ \A i \in 1..Len(FetchLog) :
          /\ FetchLog[i].url.since = windows[i]
          /\ Until(FetchLog[i]) = int(windows[i]) + 86400
          /\ i < Len(FetchLog) =>
                /\ Since(FetchLog[i]) < Since(FetchLog[i + 1])
                /\ FetchLog[i].status # Pending
    /\ Cardinality({i \in 1..Len(requests) : requests[i].status = Pending}) <= 1
    /\ pc = "done" => Len(FetchLog) = Len(windows)
    /\ (/\ pc = "done"
        /\ config.start_date = iso(2020, 1, 1)
        /\ boot = utc_epoch(2020, 1, 3, 10, 0)) =>
          /\ Len(FetchLog) = 3
          /\ \A i \in 1..3 :
                Since(FetchLog[i]) = LocalMidnight(toordinal(2020, 1, i))

\* the scenario of the specification, run to its end
C8_Witness ==
    /\ pc = "done"
    /\ config.start_date = iso(2020, 1, 1)
    /\ boot = utc_epoch(2020, 1, 3, 10, 0)
    /\ zone = UTC
    /\ Len(FetchLog) = 3
    /\ Since(FetchLog[1]) = 1577836800
    /\ Since(FetchLog[3]) = 1578009600

\* C9: when the request of day d is answered with a non-2xx status the run
\* has failed, that request is the last one, day d was requested once, and
\* the records handed to the consumer are exactly those of the earlier days.
C9_FetchFailureAborts ==
    \A k \in 1..Len(FetchLog) :
        NonSuccess(FetchLog[k]) =>
            /\ k = Len(FetchLog)
            /\ requests[Len(requests)] = FetchLog[k]
            /\ pc = "failed"
            /\ error # None
            /\ \A j \in 1..(k - 1) : FetchLog[j].url # FetchLog[k].url
            /\ produced = CleanedPages(SubSeq(FetchLog, 1, k - 1))
            /\ \A j \in 1..Len(produced) : produced[j].day # Since(FetchLog[k])

\* the second day's request failed after the first day's records were handed over
C9_Witness ==
    /\ Len(FetchLog) = 2
    /\ FetchLog[2].status = 500
    /\ pc = "failed"
    /\ error = "HTTPStatusError"
    /\ Len(produced) = MaxRows

\* C10: when every day request succeeds, the records produced by the run
\* are the cleaned rows of every window's data array, in window order and
\* array order, each exactly once.
C10_AllRowsProduced ==
    (/\ pc \in {"done", "failed"}
     /\ Enumerated
     /\ EveryFetchSucceeded) =>
        /\ Len(FetchLog) = Len(windows)
        /\ produced = CleanedPages(FetchLog)

\* C11: a 2xx day response whose body has no `data` member yields no record
\* and does not end the run: the producer goes on to the next window.
C11_MissingDataIsEmptyPage ==
    \A k \in 1..Len(FetchLog) :
        (/\ max_requests # Nothing
         /\ Success(FetchLog[k])
         /\ FetchLog[k].data = Nothing) => pc # "failed"

\* C12: a 2xx login response without data.sessionid ends the run with an
\* authentication error, and no request is sent with an absent session
\* identifier.
C12_MissingSessionFails ==
    (/\ requests # << >>
     /\ Success(requests[1])
     /\ (requests[1].data = Nothing
         \/ "sessionid" \notin DOMAIN the(requests[1].data))) =>
        /\ pc = "failed"
        /\ \A i \in 2..Len(requests) :
               requests[i].cookies # {<<"sessionid", None>>}

\* the number of requests of a kind sent so far
CountOf(kind) == Cardinality({i \in 1..Len(requests) : requests[i].kind = kind})

\* C13: once the client is being constructed a run sends one login, then at
\* most one rate-limit request, then only day requests; a day request is
\* sent only after the login and the rate-limit request have both been
\* answered 2xx, and a non-2xx rate-limit response ends the run.
C13_StartupOrder ==
    /\ CountOf("login") <= 1
    /\ CountOf("rate_limit") <= 1
    /\ pc \notin {"main", "login"} /\ error # "ConfigError" => CountOf("login") = 1
    /\ \A i \in 1..Len(requests) :
          /\ requests[i].kind = "login" <=> i = 1
          /\ requests[i].kind = "rate_limit" <=> i = 2
          /\ requests[i].kind = "fetch" <=> i >= 3
    /\ Len(requests) >= 2 => Success(requests[1])
    /\ Len(requests) >= 3 => Success(requests[2])
    /\ (Len(requests) >= 2 /\ NonSuccess(requests[2])) =>
          /\ Len(requests) = 2
          /\ pc = "failed"

\* the rate-limit request was refused after a successful login
C13_Witness ==
    /\ Len(requests) = 2
    /\ requests[1].status = 200
    /\ requests[2].kind = "rate_limit"
    /\ requests[2].status = 500
    /\ pc = "failed"

\* the rows of a page after cleaning
Cleaned(page_rows) == [k \in 1..Len(page_rows) |-> cleaner(page_rows[k])]

\* between the start of a day's pacing and the arrival of its page nothing is
\* buffered and every row of every earlier page has been handed over; while a
\* page is being handed over, the rows handed over and the rows still
\* buffered are exactly the pages fetched so far
C14_OnePageBuffered ==
    /\ pc \in {"pace", "get", "response"} =>
          /\ rows = << >>
          /\ produced = CleanedPages(FetchLog)
    /\ pc \in {"rows", "suspended", "stopped"} =>
          /\ produced \o Cleaned(rows) = CleanedPages(FetchLog)
          /\ Len(rows) <= Len(the(FetchLog[Len(FetchLog)].data))

\* a step taken while the producer is suspended on a record sends nothing, and
\* a consumer that stopped pulling stays stopped
QuietWhileSuspended ==
    /\ (pc \in {"suspended", "stopped"}) => (requests' = requests)
    /\ (pc = "stopped") => (pc' = "stopped")

\* C14: the request for the next day is not sent before every record of the
\* current day has been handed to the consumer, and while the producer is
\* suspended on a record, or after the consumer has stopped pulling, no
\* request is sent.
C14_LazyAcrossDays ==
    /\ []C14_OnePageBuffered
    /\ [][QuietWhileSuspended]_vars

\* the consumer stopped after the first record of the first day, with a
\* record still buffered and days still to fetch
C14_Witness ==
    /\ pc = "stopped"
    /\ Len(FetchLog) = 1
    /\ Len(produced) = 1
    /\ rows # << >>
    /\ dates # << >>


\* a step that replaces next_request under an enabled rate limit sets it to
\* the completion time plus 60/max_requests seconds, never to an earlier
\* instant than the one it replaces
NextRequestAdvances ==
    (max_requests # Nothing /\ next_request' # next_request) =>
        /\ next_request' # Nothing
        /\ the(max_requests) * (the(next_request') - clock') = SecondsPerMinute
        /\ next_request # Nothing => the(next_request') >= the(next_request)

\* C15: with rate limiting enabled, every recomputed next_request is the
\* completion time of the request plus 60/max_requests and is greater than or
\* equal to the value it replaces.
C15_NextRequestMonotone == [][NextRequestAdvances]_vars

\* two day requests have been answered: next_request has been set and replaced
C15_Witness ==
    /\ max_requests # Nothing
    /\ Len(FetchLog) = 2
    /\ FetchLog[2].status # Pending
    /\ prev_get_at # Nothing
    /\ next_request # Nothing
    /\ the(next_request) > the(prev_get_at) + 2 * (SecondsPerMinute \div the(max_requests))

\* C16: when a day request is answered with a non-2xx status under an enabled
\* rate limit, the run has failed and next_request has already been set to
\* the completion time of that request plus 60/max_requests.
C16_RecomputedBeforeError ==
    (/\ max_requests # Nothing
     /\ FetchLog # << >>
     /\ NonSuccess(FetchLog[Len(FetchLog)])) =>
        /\ pc = "failed"
        /\ next_request # Nothing
        /\ the(max_requests) * (the(next_request) - clock) = SecondsPerMinute

\* the very first day request was refused: next_request was unset before it
C16_Witness ==
    /\ max_requests # Nothing
    /\ Len(FetchLog) = 1
    /\ FetchLog[1].status = 401
    /\ error = "HTTPStatusError"
    /\ next_request = Some(clock + (SecondsPerMinute \div the(max_requests)))

\* the raw rows of the pages of a list of answered day requests
RECURSIVE RawPages(_)
RawPages(log) ==
    IF log = << >> THEN << >>
    ELSE (IF Head(log).data = Nothing THEN << >> ELSE the(Head(log).data))
         \o RawPages(Tail(log))

\* C17: when the registry has no cleaner for 'intervention_details', a 2xx
\* page of rows does not end the run, and the records handed over are the raw
\* rows, unmodified.
C17_MissingCleanerIsNoOp ==
    (/\ "intervention_details" \notin CLEANERS
     /\ max_requests # Nothing
     /\ FetchLog # << >>
     /\ EveryFetchSucceeded) =>
        /\ pc # "failed"
        /\ produced \o rows = RawPages(FetchLog)

\* next_request is unset until the first day request of the client has been
\* answered, so the first request is sent without a pause; every later day
\* request, of whichever call, is sent at or after the next_request recorded
\* by the request before it
PacedAfterFirst ==
    /\ (\/ FetchLog = << >>
        \/ (Len(FetchLog) = 1 /\ FetchLog[1].status = Pending)) =>
           next_request = Nothing
    /\ (pc = "pace" /\ next_request = Nothing) => ENABLED Pace
    /\ (pc = "response" /\ Len(FetchLog) >= 2) =>
           /\ next_request # Nothing
           /\ the(get_at) >= the(next_request)

\* no step clears a recorded next_request
NeverReset == (next_request # Nothing) => (next_request' # Nothing)

\* C18: the first day request of a fresh client is not paced; every later
\* one, the first of a second call of intervention_details included, waits
\* for the recorded next_request, which is never reset.
C18_PacingAcrossInvocations == []PacedAfterFirst /\ [][NeverReset]_vars

\* the first day request of the second call is in flight, sent after the
\* pause for the next_request the first call left behind
C18_Witness ==
    /\ invocations = 2
    /\ pc = "response"
    /\ windows # << >>
    /\ Len(dates) = Len(windows) - 1
    /\ Len(FetchLog) >= 2
    /\ the(get_at) >= the(next_request)

\* the run is over: the generator is exhausted, an error ended the run, or
\* the consumer stopped pulling
Terminated == pc \in {"done", "failed", "stopped"}

\* the start date of the configuration is a valid date later than the UTC day
\* that contains the present instant
StartDateInFuture ==
    /\ StartDateGiven
    /\ start_period(config.start_date) > utc_ordinal(clock)

\* a run whose start date is later than now sends no day request, produces
\* nothing and ends without error; any run sends at most one day request per
\* enumerated day, and stops sending at the first one that fails
FinitelyManyFetches ==
    /\ (StartDateInFuture /\ Enumerated) =>
          /\ windows = << >>
          /\ FetchLog = << >>
          /\ produced = << >>
          /\ pc \in {"loop", "done"}
          /\ error = None
    /\ Len(FetchLog) <= Len(windows)
    /\ \A k \in 1..Len(FetchLog) :
          NonSuccess(FetchLog[k]) => (k = Len(FetchLog) /\ pc = "failed")
    /\ (pc = "done") => (Len(FetchLog) = Len(windows) /\ error = None)

\* the enumeration is sampled once: after Start no step changes it
SampledOnce == (pc \notin {"main", "login", "rate_limit", "sync", "created"}) =>
                   (windows' = windows)

\* C19: every run ends (generator exhausted, error, or consumer stopped); with
\* a start date later than now it ends without a day request, a record or an
\* error; otherwise after at most one day request per day of the enumeration
\* sampled at the start, by exhausting the days or at the first failure.
C19_Terminates ==
    /\ <>[]Terminated
    /\ []FinitelyManyFetches
    /\ [][SampledOnce]_vars

\* a run with a start date later than now has ended
C19_Witness ==
    /\ StartDateInFuture
    /\ pc = "done"
    /\ Len(requests) = 2

====
